---- MODULE Spec2Model ----
(***************************************************************************)
(* Kompose desktop shell (apps/web/src-tauri/src/lib.rs): the command-bar  *)
(* shortcut registry and the command-bar window controller, on the two     *)
(* desktop builds (cfg(desktop): macOS, and every other desktop target).   *)
(*                                                                         *)
(* Every framework call that returns a Result (register, unregister,       *)
(* build, is_visible, show, hide, center, set_focus) may fail; a failed    *)
(* call leaves the OS state it was to change as it was.  Handlers are      *)
(* modelled step by step (one action per OS call or guarded access), with  *)
(* pc[t] the position of the handler running on dispatch thread t.         *)
(*                                                                         *)
(* A string is a sequence of tokens: a token is one whitespace character   *)
(* or a maximal whitespace-free word.                                      *)
(***************************************************************************)
EXTENDS Integers, Sequences, FiniteSets, TLC

\* ---------------------------------------------------------------- bounds
NumThreads == 2
MaxPid == 2
MaxPad == 1

Threads == 1..NumThreads
\* pids the OS can report: -1 (no frontmost application), 0, and real pids
Pids == (-1)..MaxPid
ProcessIds == 1..MaxPid

\* ------------------------------------------------------------- constants
DEFAULT_SHORTCUT_PRESET_ID == <<"cmd_or_ctrl_shift_k">>

Platforms == {"macos", "other"}

\* --------------------------------------------------------------- strings
Whitespace == {" ", "\t", "\n"}

RECURSIVE Trim(_)
Trim(s) ==
    IF s = <<>> THEN s
    ELSE IF Head(s) \in Whitespace THEN Trim(Tail(s))
    ELSE IF s[Len(s)] \in Whitespace THEN Trim(SubSeq(s, 1, Len(s) - 1))
    ELSE s

RECURSIVE Spaces(_)
Spaces(n) == IF n = 0 THEN <<>> ELSE <<" ">> \o Spaces(n - 1)

\* the preset identifiers of the lookup table
PresetIds == {<<"cmd_or_ctrl_shift_k">>, <<"ctrl_space">>, <<"alt_space">>}

\* identifiers a caller may pass: the three presets, identifiers outside the
\* table, each with up to MaxPad whitespace characters on either side
Cores == PresetIds \cup {<<"not_a_real_preset">>, <<>>, <<"ctrl", " ", "space">>}
PresetInputs == {Spaces(l) \o c \o Spaces(r) : l \in 0..MaxPad, r \in 0..MaxPad, c \in Cores}

\* ---------------------------------------------------------------- chords
None == [mods |-> {}, code |-> "None"]
Shortcut(mods, code) == [mods |-> mods, code |-> code]

VARIABLES
    app_pc,                 \* "setup_window", "setup_shortcut", "running", "crashed"
    platform,               \* target_os of the build
    our_pid,                \* std::process::id()
    active_preset,          \* CommandBarShortcutState.active_preset
    previous_frontmost_pid, \* CommandBarShortcutState.previous_frontmost_pid
    registered,             \* chords the OS has bound to the application
    win,                    \* the window labelled command-bar: Uncreated/Hidden/Visible
    focused,                \* the command-bar window has input focus
    app_hidden,             \* the application is hidden ([NSApp hide:])
    build_count,            \* number of windows built with the label
    listeners,              \* number of focus listeners installed on the window
    held,                   \* per lock: the thread holding it, 0 when free
    pc,                     \* per thread: position in the running handler
    next_preset,            \* per thread: local of set_command_bar_shortcut_preset
    previous_preset,        \* per thread: local of set_command_bar_shortcut_preset
    stored_pid,             \* per thread: local of dismiss_command_bar
    front_pid,              \* per thread: local pid of toggle_command_bar_window
    captured,               \* pid: what get_frontmost_app_pid returned last; opened: what
                            \* it returned before the last successful show; used: a
                            \* dismiss has hidden the application on pid since
    cur,                    \* the handler started last: its input, the state it saw, its result
    oslog,                  \* OS calls and guarded writes of the handler started last
    prevdone                \* summary of the handler that ran before cur, if a toggle

vars == <<app_pc, platform, our_pid, active_preset, previous_frontmost_pid,
          registered, win, focused, app_hidden, build_count, listeners, held,
          pc, next_preset, previous_preset, stored_pid, front_pid, captured,
          cur, oslog, prevdone>>

shared == <<active_preset, previous_frontmost_pid, registered, win, focused,
            app_hidden, build_count, listeners, captured, held>>
config == <<platform, our_pid>>
locals == <<next_preset, previous_preset, stored_pid, front_pid>>

\* ------------------------------------------------------- shortcut lookup
\* mutant: the macOS branch of primary_modifier is missing
primary_modifier_control == "CONTROL"

primary_modifier == IF platform = "macos" THEN "SUPER" ELSE "CONTROL"

shortcut_for_preset(preset_id) ==
    CASE preset_id = <<"cmd_or_ctrl_shift_k">> -> Shortcut({primary_modifier, "SHIFT"}, "KeyK")
      [] preset_id = <<"ctrl_space">> -> Shortcut({"CONTROL"}, "Space")
      [] preset_id = <<"alt_space">> -> Shortcut({"ALT"}, "Space")
      [] OTHER -> None

\* ----------------------------------------------------------------- locks
\* the two Mutex fields of CommandBarShortcutState
Locks == {"active_preset", "previous_frontmost_pid"}

\* Mutex::lock: blocks until the lock is free, then thread t holds it
Acquire(t, lock) == held[lock] = 0 /\ held' = [held EXCEPT ![lock] = t]

\* the guard is dropped at the end of its block or statement
Release(t, lock) == held[lock] = t /\ held' = [held EXCEPT ![lock] = 0]

\* ---------------------------------------------------------- bookkeeping
AllIdle == \A t \in Threads : pc[t] = "idle"

Call(name, ok) == [call |-> name, ok |-> ok]

Calls(log) == {log[i].call : i \in 1..Len(log)}
CallsOk(log, names) == \A i \in 1..Len(log) : log[i].call \in names => log[i].ok

NoHandler == [op |-> "none", arg |-> <<>>, active |-> <<>>, registered |-> {},
              win |-> "Uncreated", pid |-> -1, res |-> "none"]
NoSummary == [op |-> "none", win |-> "Uncreated", showhide |-> TRUE, visible |-> TRUE]

\* what a handler started now with input arg is given and sees
Started(op, arg) ==
    [op |-> op, arg |-> arg, active |-> active_preset, registered |-> registered,
     win |-> win, pid |-> previous_frontmost_pid, res |-> "running"]

\* what is kept of the handler that ran last, once the next one starts
Summary ==
    IF cur.op = "toggle"
    THEN [op |-> cur.op, win |-> cur.win,
          showhide |-> CallsOk(oslog, {"show", "hide"}),
          visible |-> CallsOk(oslog, {"is_visible"})]
    ELSE NoSummary

\* a handler starts on thread t and continues at label
StartAndGoto(t, op, arg, label) ==
    /\ app_pc = "running"
    /\ pc[t] = "idle"
    /\ pc' = [pc EXCEPT ![t] = label]
    /\ cur' = Started(op, arg)
    /\ prevdone' = Summary
    /\ oslog' = <<>>

\* a handler starts on thread t and returns res at once, having made the calls of log
StartAndReturn(t, op, arg, res, log) ==
    /\ app_pc = "running"
    /\ pc[t] = "idle"
    /\ cur' = [Started(op, arg) EXCEPT !.res = res]
    /\ prevdone' = Summary
    /\ oslog' = log
    /\ UNCHANGED <<pc, locals>>

\* the handler on thread t returns res
Return(t, res) ==
    /\ pc' = [pc EXCEPT ![t] = "idle"]
    /\ cur' = [cur EXCEPT !.res = res]
    /\ next_preset' = [next_preset EXCEPT ![t] = <<>>]
    /\ previous_preset' = [previous_preset EXCEPT ![t] = <<>>]
    /\ stored_pid' = [stored_pid EXCEPT ![t] = -1]
    /\ front_pid' = [front_pid EXCEPT ![t] = -1]
    /\ UNCHANGED prevdone

\* the handler on thread t moves on to label
Goto(t, label) ==
    /\ pc' = [pc EXCEPT ![t] = label]
    /\ UNCHANGED <<cur, prevdone>>

Logged(name, ok) == oslog' = Append(oslog, Call(name, ok))

\* ------------------------------------------------------------------ Init
Init ==
    /\ app_pc = "setup_window"
    /\ platform \in Platforms
    /\ our_pid \in ProcessIds
    /\ active_preset = DEFAULT_SHORTCUT_PRESET_ID
    /\ previous_frontmost_pid = -1
    /\ registered = {}
    /\ win = "Uncreated"
    /\ focused = FALSE
    /\ app_hidden = FALSE
    /\ build_count = 0
    /\ listeners = 0
    /\ held = [l \in Locks |-> 0]
    /\ front_pid = [t \in Threads |-> -1]
    /\ captured = [pid |-> -1, opened |-> -1, used |-> FALSE]
    /\ pc = [t \in Threads |-> "idle"]
    /\ next_preset = [t \in Threads |-> <<>>]
    /\ previous_preset = [t \in Threads |-> <<>>]
    /\ stored_pid = [t \in Threads |-> -1]
    /\ cur = NoHandler
    /\ oslog = <<>>
    /\ prevdone = NoSummary

\* ---------------------------------------------------- OS shortcut table
\* global_shortcut().register(shortcut): on success the chord is bound
Registered(bound, shortcut, ok) == IF ok THEN bound \cup {shortcut} ELSE bound

\* global_shortcut().unregister(shortcut): on success the chord is released
Unregistered(bound, shortcut, ok) == IF ok THEN bound \ {shortcut} ELSE bound

\* register_shortcut_preset: Err on an unresolved preset or a failed registration
register_shortcut_preset(bound, preset_id, ok) ==
    IF shortcut_for_preset(preset_id) = None
    THEN [res |-> "Err", bound |-> bound]
    ELSE [res |-> IF ok THEN "Ok" ELSE "Err",
          bound |-> Registered(bound, shortcut_for_preset(preset_id), ok)]

\* unregister_shortcut_preset: nothing on an unresolved preset; a failure is logged only
unregister_shortcut_preset(bound, preset_id, ok) ==
    IF shortcut_for_preset(preset_id) = None
    THEN bound
    ELSE Unregistered(bound, shortcut_for_preset(preset_id), ok)

\* ----------------------------------------------------------------- setup
\* mutant: the test for an existing window is missing
WindowExistsNever == FALSE

\* line 113: get_webview_window(COMMAND_BAR_WINDOW_LABEL).is_some()
WindowExists == win # "Uncreated"

\* create_command_bar_window, called from setup (line 326): no-op when the labelled
\* window exists; else build it hidden and unfocused and install the focus
\* listener.  A build error is returned from setup with `?`, and run() then panics
\* in expect().
SetupCreateWindow ==
    /\ app_pc = "setup_window"
    /\ IF WindowExists
       THEN /\ app_pc' = "setup_shortcut"
            /\ UNCHANGED <<win, focused, build_count, listeners>>
       ELSE \E ok \in BOOLEAN :
            IF ok
            THEN /\ win' = "Hidden"
                 /\ focused' = FALSE
                 /\ build_count' = build_count + 1
                 /\ listeners' = listeners + 1
                 /\ app_pc' = "setup_shortcut"
            ELSE /\ app_pc' = "crashed"
                 /\ UNCHANGED <<win, focused, build_count, listeners>>
    /\ UNCHANGED <<config, active_preset, previous_frontmost_pid, registered,
                   app_hidden, captured, held, pc, locals, cur, oslog, prevdone>>

\* register_shortcut_preset(DEFAULT_SHORTCUT_PRESET_ID); an error is logged only
SetupRegisterDefault ==
    /\ app_pc = "setup_shortcut"
    /\ \E ok \in BOOLEAN :
         registered' = register_shortcut_preset(registered, DEFAULT_SHORTCUT_PRESET_ID, ok).bound
    /\ app_pc' = "running"
    /\ UNCHANGED <<config, active_preset, previous_frontmost_pid, win, focused,
                   app_hidden, build_count, listeners, captured, held, pc, locals, cur, oslog, prevdone>>

\* ------------------------------------- set_command_bar_shortcut_preset
\* mutant: the same-preset test is inverted
SamePresetInverted(previous, next) == previous # next

\* the same-preset test of line 208
SamePreset(previous, next) == previous = next

\* mutant: the identifier is not validated before the preset change starts
SetBeginUnchecked(t, preset_id) ==
    /\ StartAndGoto(t, "set", preset_id, "set_lock_read")
    /\ next_preset' = [next_preset EXCEPT ![t] = Trim(preset_id)]
    /\ UNCHANGED <<previous_preset, stored_pid, front_pid>>
    /\ UNCHANGED <<app_pc, config, shared>>

\* lines 192-198: trim the identifier, reject one the table does not resolve
SetBegin(t, preset_id) ==
    LET next == Trim(preset_id) IN
    /\ IF shortcut_for_preset(next) = None
       THEN StartAndReturn(t, "set", preset_id, "Err", <<>>)
       ELSE /\ StartAndGoto(t, "set", preset_id, "set_lock_read")
            /\ next_preset' = [next_preset EXCEPT ![t] = next]
            /\ UNCHANGED <<previous_preset, stored_pid, front_pid>>
    /\ UNCHANGED <<app_pc, config, shared>>

\* lines 201-204: lock active_preset
SetLockRead(t) ==
    /\ pc[t] = "set_lock_read"
    /\ Acquire(t, "active_preset")
    /\ Goto(t, "set_read")
    /\ UNCHANGED <<app_pc, config, active_preset, previous_frontmost_pid,
                   registered, win, focused, app_hidden, build_count, listeners,
                   captured, locals, oslog>>

\* mutant: the guard on active_preset outlives the block that copies the value
SetReadKeepsGuard(t) ==
    /\ pc[t] = "set_read"
    /\ held["active_preset"] = t
    /\ IF SamePreset(active_preset, next_preset[t])
       THEN Return(t, "Ok")
       ELSE /\ Goto(t, "set_unregister")
            /\ previous_preset' = [previous_preset EXCEPT ![t] = active_preset]
            /\ UNCHANGED <<next_preset, stored_pid, front_pid>>
    /\ UNCHANGED <<app_pc, config, active_preset, previous_frontmost_pid,
                   registered, win, focused, app_hidden, build_count, listeners,
                   captured, held, oslog>>

\* lines 205-210: copy active_preset, drop the guard; same preset: return Ok
SetRead(t) ==
    /\ pc[t] = "set_read"
    /\ Release(t, "active_preset")
    /\ IF SamePreset(active_preset, next_preset[t])
       THEN Return(t, "Ok")
       ELSE /\ Goto(t, "set_unregister")
            /\ previous_preset' = [previous_preset EXCEPT ![t] = active_preset]
            /\ UNCHANGED <<next_preset, stored_pid, front_pid>>
    /\ UNCHANGED <<app_pc, config, active_preset, previous_frontmost_pid,
                   registered, win, focused, app_hidden, build_count, listeners,
                   captured, oslog>>

\* mutant: active_preset is written before the new chord is registered
SetUnregisterCommitFirst(t) ==
    /\ pc[t] = "set_unregister"
    /\ active_preset' = next_preset[t]
    /\ \E ok \in BOOLEAN :
         /\ registered' = IF ok THEN registered \ {shortcut_for_preset(previous_preset[t])}
                          ELSE registered
         /\ oslog' = oslog \o <<Call("write_active_preset", TRUE), Call("unregister", ok)>>
    /\ Goto(t, "set_register")
    /\ UNCHANGED <<app_pc, config, previous_frontmost_pid, win,
                   focused, app_hidden, build_count, listeners, captured, held, locals>>

\* mutant: a failed unregister is returned as an error
SetUnregisterPropagates(t) ==
    /\ pc[t] = "set_unregister"
    /\ \E ok \in BOOLEAN :
         /\ registered' = unregister_shortcut_preset(registered, previous_preset[t], ok)
         /\ Logged("unregister", ok)
         /\ IF ok THEN Goto(t, "set_register") /\ UNCHANGED locals
            ELSE Return(t, "Err")
    /\ UNCHANGED <<app_pc, config, active_preset, previous_frontmost_pid, win,
                   focused, app_hidden, build_count, listeners, captured, held>>

\* line 212: unregister the previous chord, best effort
SetUnregister(t) ==
    /\ pc[t] = "set_unregister"
    /\ \E ok \in BOOLEAN :
         /\ registered' = unregister_shortcut_preset(registered, previous_preset[t], ok)
         /\ Logged("unregister", ok)
    /\ Goto(t, "set_register")
    /\ UNCHANGED <<app_pc, config, active_preset, previous_frontmost_pid, win,
                   focused, app_hidden, build_count, listeners, captured, held, locals>>

\* lines 213-214: register the new chord; an error is returned with `?`
SetRegister(t) ==
    /\ pc[t] = "set_register"
    /\ \E ok \in BOOLEAN :
         LET r == register_shortcut_preset(registered, next_preset[t], ok) IN
         /\ registered' = r.bound
         /\ Logged("register", r.res = "Ok")
         /\ IF r.res = "Ok"
            THEN Goto(t, "set_lock_commit") /\ UNCHANGED locals
            ELSE Return(t, "Err")
    /\ UNCHANGED <<app_pc, config, active_preset, previous_frontmost_pid, win,
                   focused, app_hidden, build_count, listeners, captured, held>>

\* lines 217-220: lock active_preset
SetLockCommit(t) ==
    /\ pc[t] = "set_lock_commit"
    /\ Acquire(t, "active_preset")
    /\ Goto(t, "set_commit")
    /\ UNCHANGED <<app_pc, config, active_preset, previous_frontmost_pid,
                   registered, win, focused, app_hidden, build_count, listeners,
                   captured, locals, oslog>>

\* lines 221-225: store the new preset, drop the guard, return Ok
SetCommit(t) ==
    /\ pc[t] = "set_commit"
    /\ Release(t, "active_preset")
    /\ active_preset' = next_preset[t]
    /\ Logged("write_active_preset", TRUE)
    /\ Return(t, "Ok")
    /\ UNCHANGED <<app_pc, config, previous_frontmost_pid, registered, win,
                   focused, app_hidden, build_count, listeners, captured>>

\* ------------------------------------------------ toggle_command_bar_window
\* window.hide(): on success the window is hidden
Hide(w, ok) == IF ok /\ w # "Uncreated" THEN "Hidden" ELSE w

\* window.show(): on success the window is visible
Show(w, ok) == IF ok /\ w # "Uncreated" THEN "Visible" ELSE w

\* get_frontmost_app_pid: -1 when there is no frontmost application, else its pid
FrontmostPids == Pids

\* mutant: the handler does not look at the state of the shortcut event
ShortcutEventUnfiltered(t, state) ==
    /\ LET op == IF state = "Pressed" THEN "toggle" ELSE "released" IN
       IF win = "Uncreated"
       THEN StartAndReturn(t, op, <<>>, "Ok", <<>>)
       ELSE StartAndGoto(t, op, <<>>, "tog_is_visible") /\ UNCHANGED locals
    /\ UNCHANGED <<app_pc, config, shared>>

\* lines 286-297 and 147-149: the global-shortcut handler ignores every state but
\* Pressed; toggle returns Ok when the labelled window does not exist
ShortcutEvent(t, state) ==
    /\ IF state # "Pressed"
       THEN StartAndReturn(t, "released", <<>>, "Ok", <<>>)
       ELSE IF win = "Uncreated"
       THEN StartAndReturn(t, "toggle", <<>>, "Ok", <<>>)
       ELSE StartAndGoto(t, "toggle", <<>>, "tog_is_visible") /\ UNCHANGED locals
    /\ UNCHANGED <<app_pc, config, shared>>

\* mutant: the visible branch is missing, toggle always shows
TogIsVisibleAlwaysShow(t) ==
    /\ pc[t] = "tog_is_visible"
    /\ \E ok \in BOOLEAN :
         /\ Logged("is_visible", ok)
         /\ IF ~ok THEN Return(t, "Err")
            ELSE /\ Goto(t, IF platform = "macos" THEN "tog_frontmost" ELSE "tog_show")
                 /\ UNCHANGED locals
    /\ UNCHANGED <<app_pc, config, shared>>

\* mutant: the window is shown without the frontmost pid being taken first
TogIsVisibleNoSnapshot(t) ==
    /\ pc[t] = "tog_is_visible"
    /\ \E ok \in BOOLEAN :
         /\ Logged("is_visible", ok)
         /\ IF ~ok THEN Return(t, "Err")
            ELSE /\ Goto(t, IF win = "Visible" THEN "tog_hide" ELSE "tog_show")
                 /\ UNCHANGED locals
    /\ UNCHANGED <<app_pc, config, shared>>

\* line 151: is_visible()?; visible: go and hide, else snapshot (macOS) and show
TogIsVisible(t) ==
    /\ pc[t] = "tog_is_visible"
    /\ \E ok \in BOOLEAN :
         /\ Logged("is_visible", ok)
         /\ IF ~ok THEN Return(t, "Err")
            ELSE /\ Goto(t, IF win = "Visible" THEN "tog_hide"
                            ELSE IF platform = "macos" THEN "tog_frontmost"
                            ELSE "tog_show")
                 /\ UNCHANGED locals
    /\ UNCHANGED <<app_pc, config, shared>>

\* lines 152-153: hide()?; return
TogHide(t) ==
    /\ pc[t] = "tog_hide"
    /\ \E ok \in BOOLEAN :
         /\ win' = Hide(win, ok)
         /\ Logged("hide", ok)
         /\ Return(t, IF ok THEN "Ok" ELSE "Err")
    /\ UNCHANGED <<app_pc, config, active_preset, previous_frontmost_pid,
                   registered, focused, app_hidden, build_count, listeners, captured, held>>

\* line 160 (macOS): pid = get_frontmost_app_pid()
TogFrontmost(t) ==
    /\ pc[t] = "tog_frontmost"
    /\ \E pid \in FrontmostPids :
         /\ front_pid' = [front_pid EXCEPT ![t] = pid]
         /\ captured' = [captured EXCEPT !.pid = pid, !.used = FALSE]
    /\ Logged("get_frontmost_app_pid", TRUE)
    /\ Goto(t, "tog_lock_pid")
    /\ UNCHANGED <<app_pc, config, active_preset, previous_frontmost_pid,
                   registered, win, focused, app_hidden, build_count, listeners,
                   held, next_preset, previous_preset, stored_pid>>

\* lines 161-164: lock previous_frontmost_pid
TogLockPid(t) ==
    /\ pc[t] = "tog_lock_pid"
    /\ Acquire(t, "previous_frontmost_pid")
    /\ Goto(t, "tog_snapshot")
    /\ UNCHANGED <<app_pc, config, active_preset, previous_frontmost_pid,
                   registered, win, focused, app_hidden, build_count, listeners,
                   captured, locals, oslog>>

\* lines 165-167: *guard = pid, drop the guard
TogSnapshot(t) ==
    /\ pc[t] = "tog_snapshot"
    /\ Release(t, "previous_frontmost_pid")
    /\ previous_frontmost_pid' = front_pid[t]
    /\ Logged("write_previous_frontmost_pid", TRUE)
    /\ Goto(t, "tog_show")
    /\ UNCHANGED <<app_pc, config, active_preset, registered, win, focused,
                   app_hidden, build_count, listeners, captured, locals>>

\* line 170: show()?; showing a window of a hidden application unhides it
TogShow(t) ==
    /\ pc[t] = "tog_show"
    /\ \E ok \in BOOLEAN :
         /\ win' = Show(win, ok)
         /\ app_hidden' = (app_hidden /\ ~ok)
         /\ captured' = IF ok THEN [captured EXCEPT !.opened = captured.pid] ELSE captured
         /\ Logged("show", ok)
         /\ IF ok THEN Goto(t, "tog_center") /\ UNCHANGED locals
            ELSE Return(t, "Err")
    /\ UNCHANGED <<app_pc, config, active_preset, previous_frontmost_pid,
                   registered, focused, build_count, listeners, held>>

\* line 171: center(), result dropped
TogCenter(t) ==
    /\ pc[t] = "tog_center"
    /\ \E ok \in BOOLEAN : Logged("center", ok)
    /\ Goto(t, "tog_focus")
    /\ UNCHANGED <<app_pc, config, shared, locals>>

\* lines 172-173: set_focus()?; return
TogFocus(t) ==
    /\ pc[t] = "tog_focus"
    /\ \E ok \in BOOLEAN :
         /\ focused' = (focused \/ ok)
         /\ Logged("set_focus", ok)
         /\ Return(t, IF ok THEN "Ok" ELSE "Err")
    /\ UNCHANGED <<app_pc, config, active_preset, previous_frontmost_pid,
                   registered, win, app_hidden, build_count, listeners, captured, held>>

\* mutant: the listener hides the window on Focused(true) instead of Focused(false)
FocusEventInverted(t, gained) ==
    /\ win # "Uncreated"
    /\ IF gained
       THEN /\ win = "Visible" /\ ~focused /\ ~app_hidden
            /\ focused' = TRUE
            /\ \E ok \in BOOLEAN :
                 /\ win' = IF ok THEN "Hidden" ELSE win
                 /\ StartAndReturn(t, "focus_gained", <<>>, "Ok", <<Call("hide", ok)>>)
       ELSE /\ focused
            /\ focused' = FALSE
            /\ StartAndReturn(t, "focus_lost", <<>>, "Ok", <<>>)
            /\ UNCHANGED win
    /\ UNCHANGED <<app_pc, config, active_preset, previous_frontmost_pid,
                   registered, app_hidden, build_count, listeners, captured, held>>

\* ------------------------------------------------ focus listener, lines 136-140
\* Focused(false) is delivered when the window loses input focus: hide(), result
\* dropped.  Focused(true) is delivered when the visible window is given focus.
FocusEvent(t, gained) ==
    /\ win # "Uncreated"
    /\ IF gained
       THEN /\ win = "Visible" /\ ~focused /\ ~app_hidden
            /\ focused' = TRUE
            /\ StartAndReturn(t, "focus_gained", <<>>, "Ok", <<>>)
            /\ UNCHANGED win
       ELSE /\ focused
            /\ focused' = FALSE
            /\ \E ok \in BOOLEAN :
                 /\ win' = Hide(win, ok)
                 /\ StartAndReturn(t, "focus_lost", <<>>, "Ok", <<Call("hide", ok)>>)
    /\ UNCHANGED <<app_pc, config, active_preset, previous_frontmost_pid,
                   registered, app_hidden, build_count, listeners, captured, held>>

\* ------------------------------------------------------ dismiss_command_bar
\* mutant: the stored pid is not tested for being positive
PreviousAppIsNotUs(stored, ours) == stored # ours

\* line 254: the previous application was another one
PreviousAppIsExternal(stored, ours) == stored > 0 /\ stored # ours

\* line 240: dismiss_command_bar is invoked; only macOS reads the stored pid
DismissBegin(t) ==
    /\ StartAndGoto(t, "dismiss", <<>>,
                    IF platform = "macos" THEN "dis_lock_pid" ELSE "dis_hide_win")
    /\ UNCHANGED <<app_pc, config, shared, locals>>

\* lines 245-248: lock previous_frontmost_pid
DisLockPid(t) ==
    /\ pc[t] = "dis_lock_pid"
    /\ Acquire(t, "previous_frontmost_pid")
    /\ Goto(t, "dis_read")
    /\ UNCHANGED <<app_pc, config, active_preset, previous_frontmost_pid,
                   registered, win, focused, app_hidden, build_count, listeners,
                   captured, locals, oslog>>

\* lines 249-254: copy the stored pid, drop the guard, choose the branch
DisRead(t) ==
    /\ pc[t] = "dis_read"
    /\ Release(t, "previous_frontmost_pid")
    /\ stored_pid' = [stored_pid EXCEPT ![t] = previous_frontmost_pid]
    /\ Goto(t, IF PreviousAppIsExternal(previous_frontmost_pid, our_pid)
               THEN "dis_hide_app" ELSE "dis_hide_win")
    /\ UNCHANGED <<app_pc, config, active_preset, previous_frontmost_pid,
                   registered, win, focused, app_hidden, build_count, listeners,
                   captured, next_preset, previous_preset, front_pid, oslog>>

\* mutant: after hide_app the handler returns without hiding the window
DisHideAppAndReturn(t) ==
    /\ pc[t] = "dis_hide_app"
    /\ app_hidden' = TRUE
    /\ captured' = [captured EXCEPT !.used = TRUE]
    /\ Logged("hide_app", TRUE)
    /\ Return(t, "Ok")
    /\ UNCHANGED <<app_pc, config, active_preset, previous_frontmost_pid,
                   registered, win, focused, build_count, listeners, held>>

\* line 256: hide_app(), [NSApp hide:]: hides the application, activates the previous one
DisHideApp(t) ==
    /\ pc[t] = "dis_hide_app"
    /\ app_hidden' = TRUE
    /\ captured' = [captured EXCEPT !.used = TRUE]
    /\ Logged("hide_app", TRUE)
    /\ Goto(t, "dis_hide_win")
    /\ UNCHANGED <<app_pc, config, active_preset, previous_frontmost_pid,
                   registered, win, focused, build_count, listeners, held, locals>>

\* lines 258-261 and 266-268: hide the labelled window if it exists, result dropped
DisHideWin(t) ==
    /\ pc[t] = "dis_hide_win"
    /\ IF win = "Uncreated"
       THEN UNCHANGED <<win, oslog>>
       ELSE \E ok \in BOOLEAN :
              /\ win' = Hide(win, ok)
              /\ Logged("hide", ok)
    /\ Return(t, "Ok")
    /\ UNCHANGED <<app_pc, config, active_preset, previous_frontmost_pid,
                   registered, focused, app_hidden, build_count, listeners, captured, held>>

\* ------------------------------------------- create_command_bar_window, again
\* create_command_bar_window invoked while the application runs (run() itself
\* calls it once, from setup): lines 113-115 make it a no-op on the existing
\* window; otherwise it builds the window and installs the listener, and a build
\* error is returned to the caller
EnsureCreated(t) ==
    /\ IF WindowExists
       THEN /\ StartAndReturn(t, "create", <<>>, "Ok", <<>>)
            /\ UNCHANGED <<win, focused, build_count, listeners>>
       ELSE \E ok \in BOOLEAN :
            IF ok
            THEN /\ win' = "Hidden"
                 /\ focused' = FALSE
                 /\ build_count' = build_count + 1
                 /\ listeners' = listeners + 1
                 /\ StartAndReturn(t, "create", <<>>, "Ok", <<Call("build", TRUE)>>)
            ELSE /\ StartAndReturn(t, "create", <<>>, "Err", <<Call("build", FALSE)>>)
                 /\ UNCHANGED <<win, focused, build_count, listeners>>
    /\ UNCHANGED <<app_pc, config, active_preset, previous_frontmost_pid,
                   registered, app_hidden, captured, held>>

\* ------------------------------------------------------------ environment
\* the user brings the hidden application back (dock click, Cmd+Tab)
Unhide ==
    /\ app_pc = "running"
    /\ app_hidden
    /\ app_hidden' = FALSE
    /\ UNCHANGED <<app_pc, config, active_preset, previous_frontmost_pid,
                   registered, win, focused, build_count, listeners, captured, held, pc, locals, cur, oslog,
                   prevdone>>

\* --------------------------------------------------------- specification
ShortcutStates == {"Pressed", "Released"}

\* a handler runs on thread t to its return before the next event is dispatched
SetStep(t) ==
    \/ SetLockRead(t)
    \/ SetRead(t)
    \/ SetUnregister(t)
    \/ SetRegister(t)
    \/ SetLockCommit(t)
    \/ SetCommit(t)

WindowStep(t) ==
    \/ TogIsVisible(t)
    \/ TogHide(t)
    \/ TogFrontmost(t)
    \/ TogLockPid(t)
    \/ TogSnapshot(t)
    \/ TogShow(t)
    \/ TogCenter(t)
    \/ TogFocus(t)
    \/ DisLockPid(t)
    \/ DisRead(t)
    \/ DisHideApp(t)
    \/ DisHideWin(t)

SetDispatch(t) == \E preset_id \in PresetInputs : SetBegin(t, preset_id)

WindowDispatch(t) ==
    \/ \E state \in ShortcutStates : ShortcutEvent(t, state)
    \/ \E gained \in BOOLEAN : FocusEvent(t, gained)
    \/ DismissBegin(t)

Setup == SetupCreateWindow \/ SetupRegisterDefault

\* the shortcut registry alone: startup and the preset command
ShortcutNext ==
    \/ Setup
    \/ AllIdle /\ \E t \in Threads : SetDispatch(t)
    \/ \E t \in Threads : SetStep(t)

\* the command-bar controller alone: startup, shortcut, focus and dismiss events
WindowNext ==
    \/ Setup
    \/ AllIdle /\ \E t \in Threads : WindowDispatch(t)
    \/ AllIdle /\ Unhide
    \/ \E t \in Threads : WindowStep(t)

\* the controller with create_command_bar_window as one more operation
ControllerNext ==
    \/ WindowNext
    \/ AllIdle /\ \E t \in Threads : EnsureCreated(t)

\* both components together, the preset command called with the preset identifiers
\* themselves
AppNext ==
    \/ Setup
    \/ AllIdle /\ \E t \in Threads : \E preset_id \in PresetIds : SetBegin(t, preset_id)
    \/ AllIdle /\ \E t \in Threads : WindowDispatch(t)
    \/ AllIdle /\ Unhide
    \/ \E t \in Threads : SetStep(t) \/ WindowStep(t)

\* every OS call of the step succeeds: the window is built, and each call the
\* step logs returned Ok
OsCallsSucceed ==
    /\ app_pc' # "crashed"
    /\ app_pc = "setup_shortcut" => registered' # {}
    /\ \A i \in 1..Len(oslog') : oslog'[i].ok

\* the preset command invoked from several threads at once with valid presets,
\* every OS call succeeding: a call may start while another is in progress
ConcNext ==
    \/ Setup /\ OsCallsSucceed
    \/ \E t \in Threads : \E preset_id \in PresetIds : SetBegin(t, preset_id)
    \/ \E t \in Threads : SetStep(t) /\ OsCallsSucceed

Next == ShortcutNext \/ WindowNext

Spec == Init /\ [][Next]_vars
ShortcutSpec == Init /\ [][ShortcutNext]_vars
WindowSpec == Init /\ [][WindowNext]_vars
ControllerSpec == Init /\ [][ControllerNext]_vars
AppSpec == Init /\ [][AppNext]_vars
ConcSpec == Init /\ [][ConcNext]_vars

\* ================================================================ claims
CallSeq(log) == [i \in 1..Len(log) |-> log[i].call]
IsPrefix(a, b) == Len(a) <= Len(b) /\ a = SubSeq(b, 1, Len(a))
Returned == cur.res \in {"Ok", "Err"}
ShortcutCalls == {"unregister", "register"}

\* C1: a set_command_bar_shortcut_preset call with a valid preset other than the
\* active one whose registration fails returns an error, leaves active_preset
\* unchanged, and leaves the chord of the previously active preset (bound before
\* the call) bound to the application.
C1_FailedRegistrationKeepsPrevious ==
    (/\ cur.op = "set" /\ cur.res = "Err"
     /\ cur.arg \in PresetIds /\ cur.arg # cur.active
     /\ shortcut_for_preset(cur.active) \in cur.registered
     /\ Call("register", FALSE) \in {oslog[i] : i \in 1..Len(oslog)})
    => /\ active_preset = cur.active
       /\ shortcut_for_preset(cur.active) \in registered

\* C2: whenever the application is running and no call is in progress, the chords
\* bound to the application are exactly the chord of active_preset.
C2_BindingMatchesActivePreset ==
    (app_pc = "running" /\ AllIdle)
    => registered = {shortcut_for_preset(active_preset)}

\* C3 (as stated): a call with an identifier that is not one of the three preset
\* identifiers returns an error, makes no OS call, and leaves active_preset and the
\* bound chords unchanged.
C3_UnlistedIdRejected ==
    (cur.op = "set" /\ cur.arg \notin PresetIds)
    => /\ cur.res = "Err"
       /\ oslog = <<>>
       /\ active_preset = cur.active
       /\ registered = cur.registered

\* C3 (amended): a call with an identifier whose whitespace-trimmed form is not one
\* of the three preset identifiers returns an error, makes no OS call, and leaves
\* active_preset and the bound chords unchanged.
C3_UnresolvedIdRejected ==
    (cur.op = "set" /\ Trim(cur.arg) \notin PresetIds)
    => /\ cur.res = "Err"
       /\ oslog = <<>>
       /\ active_preset = cur.active
       /\ registered = cur.registered

C3_Witness ==
    /\ cur.op = "set" /\ cur.res = "Err"
    /\ cur.arg = <<"not_a_real_preset", " ">>
    /\ active_preset = <<"ctrl_space">>
    /\ shortcut_for_preset(<<"ctrl_space">>) \in registered

\* C4: a call with a valid preset x made while active_preset = x returns Ok, makes
\* no unregister or register call, and leaves active_preset and the bound chords
\* unchanged.
C4_SamePresetIsNoOp ==
    (cur.op = "set" /\ cur.arg \in PresetIds /\ cur.arg = cur.active)
    => /\ Calls(oslog) \cap ShortcutCalls = {}
       /\ oslog = <<>>
       /\ active_preset = cur.active
       /\ registered = cur.registered
       /\ cur.res \in {"running", "Ok"}
       /\ AllIdle => cur.res = "Ok"

C4_Witness ==
    /\ AllIdle /\ cur.op = "set" /\ cur.res = "Ok"
    /\ cur.arg = <<"ctrl_space">> /\ cur.active = <<"ctrl_space">>
    /\ prevdone = NoSummary

\* the steps of a preset change, in order
SwitchSteps == <<"unregister", "register", "write_active_preset">>

\* the order of the steps of a call with a valid preset other than the active one:
\* unregister, register, write; active_preset is written only after a successful
\* registration
C5_Order ==
    (cur.op = "set" /\ cur.arg \in PresetIds /\ cur.arg # cur.active)
    => /\ IsPrefix(CallSeq(oslog), SwitchSteps)
       /\ active_preset # cur.active =>
            /\ Len(oslog) = 3
            /\ oslog[2] = Call("register", TRUE)
            /\ shortcut_for_preset(cur.arg) \in registered
       /\ Len(oslog) < 3 => active_preset = cur.active

C5_SwitchSucceeded ==
    /\ cur.op = "set" /\ cur.arg \in PresetIds /\ cur.arg # cur.active
    /\ Call("register", TRUE) \in {oslog[i] : i \in 1..Len(oslog)}
    /\ Returned

\* C5 (as stated): such a call whose registration succeeds runs unregister,
\* register, write in this order; on return the old chord is unregistered, the new
\* chord is registered and active_preset is the new id.
C5_SwitchOrderOldReleased ==
    /\ C5_Order
    /\ C5_SwitchSucceeded =>
         /\ cur.res = "Ok"
         /\ CallSeq(oslog) = SwitchSteps
         /\ shortcut_for_preset(cur.active) \notin registered
         /\ shortcut_for_preset(cur.arg) \in registered
         /\ active_preset = cur.arg

\* C5 (amended): such a call whose registration succeeds runs unregister, register,
\* write in this order; on return the new chord is registered, active_preset is the
\* new id, and the old chord is unregistered if the unregister call succeeded.
C5_SwitchOrder ==
    /\ C5_Order
    /\ C5_SwitchSucceeded =>
         /\ cur.res = "Ok"
         /\ CallSeq(oslog) = SwitchSteps
         /\ oslog[1].ok => shortcut_for_preset(cur.active) \notin registered
         /\ shortcut_for_preset(cur.arg) \in registered
         /\ active_preset = cur.arg

C5_Witness ==
    /\ C5_SwitchSucceeded
    /\ cur.active = <<"ctrl_space">> /\ cur.arg = <<"alt_space">>
    /\ cur.registered = {shortcut_for_preset(<<"ctrl_space">>)}
    /\ registered = {shortcut_for_preset(<<"alt_space">>)}

\* two toggles ran one right after the other on the created window
TwoToggles ==
    /\ AllIdle /\ cur.op = "toggle" /\ Returned
    /\ prevdone.op = "toggle" /\ prevdone.win # "Uncreated"

\* C6 (as stated): two toggles in succession whose show and hide calls succeed
\* leave the window in the visibility state it had before the first.
C6_TwoTogglesRestoreShowHide ==
    (TwoToggles /\ prevdone.showhide /\ CallsOk(oslog, {"show", "hide"}))
    => win = prevdone.win

\* C6 (amended): two toggles in succession whose is_visible, show and hide calls
\* succeed leave the window in the visibility state it had before the first.
C6_TwoTogglesRestore ==
    (/\ TwoToggles
     /\ prevdone.showhide /\ CallsOk(oslog, {"show", "hide"})
     /\ prevdone.visible /\ CallsOk(oslog, {"is_visible"}))
    => win = prevdone.win

C6_Witness ==
    /\ TwoToggles
    /\ prevdone.showhide /\ prevdone.visible
    /\ prevdone.win = "Hidden" /\ cur.win = "Visible" /\ win = "Hidden"
    /\ oslog = <<Call("is_visible", TRUE), Call("hide", TRUE)>>

\* C7 (as stated): once the focus-lost event of the visible window has been
\* handled, the window is hidden.
C7_FocusLostHidesAlways ==
    (cur.op = "focus_lost" /\ cur.win = "Visible") => win = "Hidden"

\* C7 (amended): the focus-lost listener calls hide on the window and nothing else
\* (no toggle, no dismiss); once the focus-lost event of the visible window has
\* been handled, the window is hidden if that hide call succeeded.
C7_FocusLostHides ==
    cur.op = "focus_lost"
    => /\ CallSeq(oslog) = <<"hide">>
       /\ (cur.win = "Visible" /\ oslog[1].ok) => win = "Hidden"

C7_Witness ==
    /\ cur.op = "focus_lost" /\ cur.win = "Visible" /\ win = "Hidden"
    /\ oslog = <<Call("hide", TRUE)>> /\ ~focused

\* C8: a dismiss that finds a stored pid that is not positive (none captured), or
\* equal to the process id, never calls hide_app; it only hides the window.
C8_NoAtomicHideWithoutExternalApp ==
    (cur.op = "dismiss" /\ (cur.pid <= 0 \/ cur.pid = our_pid))
    => /\ "hide_app" \notin Calls(oslog)
       /\ IsPrefix(CallSeq(oslog), <<"hide">>)
       /\ Returned => CallSeq(oslog) = <<"hide">>

C8_Witness ==
    /\ platform = "macos" /\ cur.op = "dismiss" /\ Returned
    /\ cur.pid = our_pid /\ cur.win = "Visible"
    /\ oslog = <<Call("hide", TRUE)>> /\ ~app_hidden

\* a dismiss on macOS that finds the pid of another application
ExternalDismiss ==
    /\ platform = "macos" /\ cur.op = "dismiss"
    /\ cur.pid > 0 /\ cur.pid # our_pid

\* C9 (as stated): such a dismiss calls hide_app first and hides the window after
\* it; on return the window is hidden.
C9_AtomicHideThenHiddenAlways ==
    ExternalDismiss
    => /\ IsPrefix(CallSeq(oslog), <<"hide_app", "hide">>)
       /\ Returned => (CallSeq(oslog) = <<"hide_app", "hide">> /\ win = "Hidden")

\* C9 (amended): such a dismiss calls hide_app first and hides the window after it;
\* on return the window is hidden if that hide call succeeded.
C9_AtomicHideThenHidden ==
    ExternalDismiss
    => /\ IsPrefix(CallSeq(oslog), <<"hide_app", "hide">>)
       /\ Returned =>
            /\ CallSeq(oslog) = <<"hide_app", "hide">>
            /\ oslog[2].ok => win = "Hidden"

C9_Witness ==
    /\ ExternalDismiss /\ Returned /\ AllIdle
    /\ cur.win = "Visible" /\ win = "Hidden"
    /\ oslog = <<Call("hide_app", TRUE), Call("hide", TRUE)>>
    /\ ~app_hidden

\* C10: the lookup resolves cmd_or_ctrl_shift_k to primary+Shift+K (primary is
\* Super on macOS, Control elsewhere), ctrl_space to Control+Space, alt_space to
\* Alt+Space; the three chords differ; every other identifier is not found; only
\* these chords are ever bound.
C10_Lookup ==
    LET primary == IF platform = "macos" THEN "SUPER" ELSE "CONTROL"
        k == [mods |-> {primary, "SHIFT"}, code |-> "KeyK"]
        c == [mods |-> {"CONTROL"}, code |-> "Space"]
        a == [mods |-> {"ALT"}, code |-> "Space"]
    IN /\ shortcut_for_preset(<<"cmd_or_ctrl_shift_k">>) = k
       /\ shortcut_for_preset(<<"ctrl_space">>) = c
       /\ shortcut_for_preset(<<"alt_space">>) = a
       /\ Cardinality({k, c, a}) = 3
       /\ None \notin {k, c, a}
       /\ \A id \in PresetInputs \ PresetIds : shortcut_for_preset(id) = None
       /\ registered \subseteq {k, c, a}

C10_Witness ==
    /\ platform = "macos"
    /\ registered = {[mods |-> {"SUPER", "SHIFT"}, code |-> "KeyK"],
                     [mods |-> {"CONTROL"}, code |-> "Space"],
                     [mods |-> {"ALT"}, code |-> "Space"]}

\* C11: no failure of an OS call (shortcut registration, window creation, window
\* show/hide/focus/center), at startup or later, crashes the process.
C11_NeverCrashes == app_pc # "crashed"

\* C12: the labelled window is built at most once and carries at most one focus
\* listener; it exists from its build on; right after its build it is hidden and
\* unfocused; create_command_bar_window on the existing window builds nothing,
\* returns Ok and leaves its visibility as it was.
C12_Singleton ==
    /\ build_count <= 1
    /\ listeners = build_count
    /\ (win = "Uncreated") = (build_count = 0)
    /\ app_pc = "setup_shortcut" => (win = "Hidden" /\ ~focused)
    /\ cur.op = "create" =>
         /\ cur.res = "Ok"
         /\ oslog = <<>>
         /\ win = cur.win

C12_Witness ==
    /\ cur.op = "create" /\ cur.res = "Ok"
    /\ cur.win = "Visible" /\ win = "Visible" /\ focused
    /\ build_count = 1 /\ listeners = 1
    /\ prevdone.op = "toggle"

\* the steps of a toggle that opens the window on macOS, and of one that hides it
OpenSteps == <<"is_visible", "get_frontmost_app_pid", "write_previous_frontmost_pid",
               "show", "center", "set_focus">>
HideSteps == <<"is_visible", "hide">>

\* no toggle is between taking the frontmost pid and storing it
NoSnapshotPending == \A t \in Threads : pc[t] \notin {"tog_lock_pid", "tog_snapshot"}

\* on macOS a toggle of the hidden window takes and stores the frontmost pid before
\* it shows or focuses the window; a toggle of the visible window leaves the
\* stored pid alone
C13_Order ==
    /\ (platform = "macos" /\ cur.op = "toggle" /\ cur.win = "Hidden") =>
         /\ IsPrefix(CallSeq(oslog), OpenSteps)
         /\ "show" \in Calls(oslog) => previous_frontmost_pid = captured.pid
         /\ "write_previous_frontmost_pid" \notin Calls(oslog) =>
              previous_frontmost_pid = cur.pid
    /\ (cur.op = "toggle" /\ cur.win = "Visible") =>
         /\ IsPrefix(CallSeq(oslog), HideSteps)
         /\ previous_frontmost_pid = cur.pid

\* C13 (as stated): C13_Order, and whenever no handler runs (so at any dismiss) the
\* stored pid is the one taken at the most recent opening of the window.
C13_StoredIsLastOpened ==
    /\ C13_Order
    /\ AllIdle => previous_frontmost_pid = captured.opened

\* C13 (amended): C13_Order, and outside a toggle the stored pid is the one taken
\* by the most recent toggle that found the window hidden, whether or not its show
\* call then succeeded.
C13_StoredIsLastCaptured ==
    /\ C13_Order
    /\ NoSnapshotPending => previous_frontmost_pid = captured.pid

C13_Witness ==
    /\ platform = "macos" /\ cur.op = "toggle" /\ cur.res = "Ok"
    /\ cur.win = "Hidden" /\ win = "Visible"
    /\ CallSeq(oslog) = OpenSteps
    /\ cur.pid = our_pid /\ previous_frontmost_pid # our_pid /\ previous_frontmost_pid > 0

\* C14: a dismiss takes the hide_app branch on a captured pid at most once: no
\* dismiss reaches hide_app when an earlier dismiss has hidden the application on
\* the same captured pid and the window has not been opened since.
C14_PidUsedOnce ==
    \A t \in Threads : pc[t] = "dis_hide_app" => ~captured.used

\* C16: a failed unregister does not fail the preset change: the call goes on to
\* register, fails only if the registration fails, and with a successful
\* registration returns Ok with active_preset set to the new preset.
C16_UnregisterFailureIgnored ==
    (cur.op = "set" /\ Len(oslog) >= 1 /\ oslog[1] = Call("unregister", FALSE))
    => /\ cur.res = "Err" => (Len(oslog) = 2 /\ oslog[2] = Call("register", FALSE))
       /\ (Returned /\ Len(oslog) >= 2 /\ oslog[2] = Call("register", TRUE)) =>
            /\ cur.res = "Ok"
            /\ active_preset = Trim(cur.arg)
            /\ shortcut_for_preset(Trim(cur.arg)) \in registered

C16_Witness ==
    /\ cur.op = "set" /\ cur.res = "Ok"
    /\ CallSeq(oslog) = SwitchSteps
    /\ oslog[1] = Call("unregister", FALSE) /\ oslog[2] = Call("register", TRUE)
    /\ cur.active = <<"cmd_or_ctrl_shift_k">> /\ active_preset = <<"alt_space">>
    /\ Cardinality(registered) = 2

\* C17: a shortcut event in a state other than Pressed makes no call and changes
\* neither the window nor the stored pid; only Pressed events run a toggle.
C17_ReleasedIgnored ==
    cur.op = "released"
    => /\ cur.res = "Ok"
       /\ oslog = <<>>
       /\ win = cur.win
       /\ previous_frontmost_pid = cur.pid
       /\ AllIdle

C17_Witness ==
    /\ cur.op = "released" /\ prevdone.op = "toggle"
    /\ prevdone.win = "Hidden" /\ cur.win = "Visible" /\ win = "Visible"

\* C19: a dismiss calls hide_app only if the window was visible when it was invoked.
C19_AtomicHideOnlyWhenVisible ==
    (cur.op = "dismiss" /\ "hide_app" \in Calls(oslog)) => cur.win = "Visible"

\* C20: whenever set_command_bar_shortcut_preset returns Ok, the chord of the
\* requested preset is bound to the application.
C20_SuccessMeansBound ==
    (cur.op = "set" /\ cur.res = "Ok")
    => shortcut_for_preset(Trim(cur.arg)) \in registered

\* the positions of a handler at which its next step is a call into the OS
OsCallSteps ==
    {"set_unregister", "set_register",
     "tog_is_visible", "tog_hide", "tog_frontmost", "tog_show", "tog_center", "tog_focus",
     "dis_hide_app", "dis_hide_win"}

\* the positions at which a handler holds the guard of a lock: the one read or
\* write of the guarded value
GuardSteps(lock) ==
    IF lock = "active_preset" THEN {"set_read", "set_commit"}
    ELSE {"tog_snapshot", "dis_read"}

\* C15: in the preset command, toggle and dismiss, no lock is held while an OS
\* call is in progress: a lock is held only by a handler that is at the single
\* read or write of the guarded value, never by one that is about to call the
\* OS or has returned
C15_NoLockAcrossOsCall ==
    /\ \A lock \in Locks :
          held[lock] # 0 => pc[held[lock]] \in GuardSteps(lock)
    /\ \A t \in Threads :
          pc[t] \in OsCallSteps \cup {"idle"} => \A lock \in Locks : held[lock] # t

\* a handler has taken and dropped a lock and is now at an OS call that follows
\* it: the preset command about to unregister, toggle about to show the window
\* after the snapshot, dismiss about to hide the application
C15_Witness ==
    /\ \A lock \in Locks : held[lock] = 0
    /\ \E t \in Threads :
          \/ pc[t] = "set_unregister"
          \/ pc[t] = "tog_show" /\ \E i \in 1..Len(oslog) : oslog[i].call = "write_previous_frontmost_pid"
          \/ pc[t] = "dis_hide_app"

\* C18: after concurrent preset commands with valid presets, every OS call
\* succeeding, once all calls have returned exactly one chord is bound and it is
\* the chord of active_preset
C18_ConcurrentSetsLeaveOneBinding ==
    (app_pc = "running" /\ AllIdle) =>
        registered = {shortcut_for_preset(active_preset)}

====
